---- MODULE Spec2Model ----
(***************************************************************************)
(* news-authenticity-checker: the embedding service (server.py,            *)
(* ollama_embeddings.py) and the scraping pipeline (news_scraper.py).      *)
(*                                                                         *)
(* Spec        the embedding service handling POST /embed requests one     *)
(*             after the other, from a cache file only the service writes  *)
(* SpecCorrupt the same service started on arbitrary cache file content    *)
(* SpecScrape  one run of scrape()                                         *)
(* SpecThreads the service handling requests in concurrent threads         *)
(* SpecText    the service handling requests that carry different texts    *)
(***************************************************************************)
EXTENDS Integers, Sequences, FiniteSets, TLC

VARIABLES
    \* ---- embedding service ----
    csvRows,       \* rows of the article CSV (NEWS_CSV) as csv.DictReader yields them
    cacheExists,   \* cache_path.exists()
    cacheFile,     \* the lines of the cache file (EMBED_CACHE), in file order
    cacheOpen,     \* TRUE when the last line of the file has no terminating newline
    lastReq,       \* body of the last POST /embed request
    lastResp,      \* response to it
    backendCalls,  \* number of calls the last request made to the embedding backend
    backendPrompt, \* the text the last request handed to the backend, None without a call
    tpc,           \* per request thread: its position in embed()
    treq,          \* per request thread: the body of its request
    tout,          \* per request thread: the dict it is about to append
    openHead,      \* the thread whose partial write alone forms the open last line, 0 if none
    persisted,     \* the dicts _append_cache has written completely
    \* ---- scraping pipeline ----
    pc,            \* position of scrape(): "init", "category", "links", "done", "raised"
    raisedAt,      \* where the exception that left scrape() was raised
    cfg,           \* arguments of scrape() and the run start time
    cutoff,        \* cutoff computed at the start of the run
    categories,    \* list of category URLs
    ci,            \* index of the current category
    links,         \* article links of the current category
    li,            \* index of the current link
    count,         \* records written for the current category
    written,       \* records written in the run
    seen_urls,     \* set of URLs marked as seen
    csvOut,        \* rows written to the output CSV (after the header)
    fetched,       \* article URLs page.goto was called on, in order
    page,          \* what the last article fetch found
    ret            \* value returned by scrape()

threadVars == <<tpc, treq, tout, openHead, persisted>>
serverVars == <<csvRows, cacheExists, cacheFile, cacheOpen, lastReq, lastResp, backendCalls,
                backendPrompt,
                threadVars>>
scrapeVars == <<pc, raisedAt, cfg, cutoff, categories, ci, links, li, count, written,
                seen_urls, csvOut, fetched, page, ret>>
vars == <<serverVars, scrapeVars>>

-----------------------------------------------------------------------------
(* Bounds *)

MaxCacheLines == 2     \* lines the cache file may grow to
MaxCorruptLines == 2   \* lines of an arbitrary initial cache file

-----------------------------------------------------------------------------
(* Python values *)

None == "<None>"

\* Python truthiness of an optional string: None and "" are falsy
Truthy(v) == v # None /\ v # ""

\* x or y
OrElse(x, y) == IF Truthy(x) THEN x ELSE y

-----------------------------------------------------------------------------
(* The embedding service: server.py *)

\* OLLAMA_EMBED_MODEL as configured for the service
embed_model == "m1"

\* load_articles: every CSV row becomes an ArticleRow, missing or empty
\* fields replaced by their defaults
ArticleRow(row) ==
    [url |-> OrElse(row.url, ""), content |-> OrElse(row.content, "")]

load_articles(csv) == [i \in 1..Len(csv) |-> ArticleRow(csv[i])]

\* next((r for r in rows if r.url == url), None): index of the first match, 0 if none
FirstMatch(rows, url) ==
    IF \E i \in 1..Len(rows) : rows[i].url = url
    THEN CHOOSE i \in 1..Len(rows) :
            rows[i].url = url /\ \A j \in 1..(i - 1) : rows[j].url # url
    ELSE 0

\* _cache_key: the digest of "model|url"; SHA-256 is taken to be injective, so
\* the digest is represented by the string it is computed from
_cache_key(url, model) == model \o "|" \o url

\* Put as it would be if the first entry of a key were kept: if k not in cache
PutIfAbsent(cache, k, obj) ==
    [x \in (DOMAIN cache) \cup {k} |->
        IF x \in DOMAIN cache THEN cache[x] ELSE obj]

\* cache[k] = obj
Put(cache, k, obj) ==
    [x \in (DOMAIN cache) \cup {k} |-> IF x = k THEN obj ELSE cache[x]]

EmptyCache == [x \in {} |-> None]

\* One line of the cache file.  kind says what line.strip() and json.loads
\* make of it:
\*   "blank"    only whitespace
\*   "garbage"  not valid JSON
\*   "nonobj"   valid JSON that is not an object (a list, number, string, null)
\*   "obj"      a JSON object; keyIsStr says whether its "key" is a string
Line(kind, key, keyIsStr, model, embedding, url) ==
    [kind |-> kind, key |-> key, keyIsStr |-> keyIsStr, model |-> model,
     dims |-> Len(embedding), embedding |-> embedding, url |-> url]

BlankLine == Line("blank", None, FALSE, None, <<>>, None)
GarbageLine == Line("garbage", None, FALSE, None, <<>>, None)
NonObjLine == Line("nonobj", None, FALSE, None, <<>>, None)

\* json.dumps(obj) + "\n" for the dict embed() builds
DumpEntry(out) ==
    Line("obj", out.key, out.key # None, out.model, out.embedding, out.url)

\* json.loads(line) gives back the dict that was dumped
EntryOf(line) ==
    [key |-> line.key, model |-> line.model, dims |-> line.dims,
     embedding |-> line.embedding, url |-> line.url]

\* _load_cache over the lines from index i on, given the dict built so far.
\* Result: [ok, cache]; ok = FALSE when an exception leaves _load_cache
\* (obj.get on a value that is not a dict raises AttributeError outside the try).
RECURSIVE LoadFrom(_, _, _)
LoadFrom(file, i, cache) ==
    IF i > Len(file) THEN [ok |-> TRUE, cache |-> cache]
    ELSE LET line == file[i] IN
         CASE line.kind = "blank" -> LoadFrom(file, i + 1, cache)
           [] line.kind = "garbage" -> LoadFrom(file, i + 1, cache)
           [] line.kind = "nonobj" -> [ok |-> FALSE, cache |-> cache]
           [] OTHER ->
                IF line.keyIsStr
                THEN LoadFrom(file, i + 1, Put(cache, line.key, EntryOf(line)))
                ELSE LoadFrom(file, i + 1, cache)

_load_cache(exists, file) ==
    IF ~exists THEN [ok |-> TRUE, cache |-> EmptyCache]
    ELSE LoadFrom(file, 1, EmptyCache)

\* What the file holds after text is written behind an unterminated last
\* line: whitespace followed by the entry still strips to the entry, anything
\* else followed by the entry is not valid JSON.
Merge(last, new) == IF last.kind = "blank" THEN new ELSE GarbageLine

\* _append_cache as it would be if the write were lost
_append_cache_lost(file, open, out) == file

\* _append_cache: the file is opened in append mode and one line is written
_append_cache(file, open, out) ==
    IF open /\ Len(file) > 0
    THEN [file EXCEPT ![Len(file)] = Merge(file[Len(file)], DumpEntry(out))]
    ELSE Append(file, DumpEntry(out))

-----------------------------------------------------------------------------
(* The embedding backend client: ollama_embeddings.py *)

\* OllamaClient.embed on the HTTP response of the backend:
\* raise_for_status, then the check that "embedding" is a list
OllamaEmbed(http, model) ==
    IF ~http.ok2xx THEN [ok |-> FALSE, error |-> "HTTPError", model |-> model, embedding |-> <<>>]
    ELSE IF ~http.hasList THEN [ok |-> FALSE, error |-> "ValueError", model |-> model, embedding |-> <<>>]
    ELSE [ok |-> TRUE, error |-> "", model |-> model, embedding |-> http.embedding]

-----------------------------------------------------------------------------
(* POST /embed *)

Response(status, error, cached, entry) ==
    [status |-> status, error |-> error, cached |-> cached, key |-> entry.key,
     model |-> entry.model, dims |-> entry.dims, embedding |-> entry.embedding,
     url |-> entry.url]

NoEntry == [key |-> None, model |-> None, dims |-> 0, embedding |-> <<>>, url |-> None]

\* ResolveText as it would be if the article CSV were consulted for every
\* request that has a url
ResolveTextCsvFirst(body, csv) ==
    IF ~Truthy(body.url)
    THEN IF Truthy(body.text) THEN [status |-> 200, text |-> body.text]
         ELSE [status |-> 400, text |-> None]
    ELSE LET rows == load_articles(csv)
             m == FirstMatch(rows, body.url)
         IN IF m = 0 THEN [status |-> 404, text |-> None]
            ELSE [status |-> 200, text |-> rows[m].content]

\* ResolveText as it would be without the 400 and 404 returns
ResolveTextUnchecked(body, csv) ==
    IF Truthy(body.text) THEN [status |-> 200, text |-> body.text]
    ELSE LET rows == load_articles(csv)
             m == FirstMatch(rows, OrElse(body.url, ""))
         IN [status |-> 200, text |-> IF m = 0 THEN "" ELSE rows[m].content]

\* lines 140-147: the text to embed; status 400 or 404 when there is none
ResolveText(body, csv) ==
    IF Truthy(body.text) THEN [status |-> 200, text |-> body.text]
    ELSE IF ~Truthy(body.url) THEN [status |-> 400, text |-> None]
    ELSE LET rows == load_articles(csv)
             m == FirstMatch(rows, body.url)
         IN IF m = 0 THEN [status |-> 404, text |-> None]
            ELSE [status |-> 200, text |-> rows[m].content]

\* RequestKey as it would be if a key were computed without a url
RequestKeyAlways(url, model) == _cache_key(OrElse(url, ""), model)

\* lines 149-155: the cache key of the request, None without a url
RequestKey(url, model) == IF Truthy(url) THEN _cache_key(url, model) ELSE None

\* line 152: the request is answered from the cache
IsHit(force, key, cache) == (~force) /\ key \in DOMAIN cache

\* Persist as it would be if the entry were written whatever the backend call
\* returned
PersistAlways(store, key, res, out) ==
    IF Truthy(key)
    THEN [exists |-> TRUE, file |-> _append_cache(store.file, store.open, out), open |-> FALSE]
    ELSE store

\* lines 157-166: the cache file after the backend call of a request returned
\* res; an exception of the backend call leaves embed() before line 165
Persist(store, key, res, out) ==
    IF res.ok /\ Truthy(key)
    THEN [exists |-> TRUE, file |-> _append_cache(store.file, store.open, out), open |-> FALSE]
    ELSE store

\* The whole handler: the response, the cache file afterwards and the number
\* of backend calls made, for a request body and the backend's HTTP response
embed(body, http, csv, store) ==
    LET url == body.url
        model == OrElse(body.model, embed_model)
        force == body.force
        rt == ResolveText(body, csv)
        key == RequestKey(url, model)
        loaded == IF Truthy(url) THEN _load_cache(store.exists, store.file)
                  ELSE [ok |-> TRUE, cache |-> EmptyCache]
        res == OllamaEmbed(http, model)
        out == [key |-> key, model |-> res.model, dims |-> Len(res.embedding),
                embedding |-> res.embedding, url |-> url]
    IN
    IF rt.status # 200
    THEN [resp |-> Response(rt.status, "", FALSE, NoEntry), store |-> store, calls |-> 0,
          prompt |-> None]
    ELSE IF ~loaded.ok
    THEN [resp |-> Response(500, "AttributeError", FALSE, NoEntry), store |-> store, calls |-> 0,
          prompt |-> None]
    ELSE IF Truthy(url) /\ IsHit(force, key, loaded.cache)
    THEN [resp |-> Response(200, "", TRUE, loaded.cache[key]), store |-> store, calls |-> 0,
          prompt |-> None]
    ELSE [resp |-> IF res.ok THEN Response(200, "", FALSE, out)
                   ELSE Response(500, res.error, FALSE, NoEntry),
          store |-> Persist(store, key, res, out),
          calls |-> 1, prompt |-> rt.text]

\* Request bodies: url, text and model absent or given
UrlChoices == {None, "u1", "a|u1"}
TextChoices == {None, "t1"}
ModelChoices == {None, "m1|a"}

Bodies == [url : UrlChoices, text : TextChoices, model : ModelChoices, force : BOOLEAN]

\* HTTP responses of the embedding backend
Embeddings == {<<1>>, <<2, 3>>}

HttpResponses ==
    {[ok2xx |-> FALSE, hasList |-> FALSE, embedding |-> <<>>],
     [ok2xx |-> TRUE, hasList |-> FALSE, embedding |-> <<>>]}
    \cup {[ok2xx |-> TRUE, hasList |-> TRUE, embedding |-> e] : e \in Embeddings}

\* The article CSV the service is started on: a row without a url, and two
\* rows for "u1"; no row for "a|u1"
CsvChoices ==
    {<<[url |-> None, content |-> "c0"], [url |-> "u1", content |-> "c1"],
       [url |-> "u1", content |-> None]>>}

\* The cache file on disk
Store == [exists |-> cacheExists, file |-> cacheFile, open |-> cacheOpen]

NoRequest == [url |-> None, text |-> None, model |-> None, force |-> FALSE]

\* The threads the server handles requests in (app.run serves threaded)
Threads == {1, 2}

\* No request is being handled
ThreadsIdle ==
    /\ tpc = [t \in Threads |-> "idle"]
    /\ treq = [t \in Threads |-> NoRequest]
    /\ tout = [t \in Threads |-> NoEntry]
    /\ openHead = 0
    /\ persisted = {}

EmbedFrom(bodies) ==
    \E body \in bodies, http \in HttpResponses :
        \E r \in {embed(body, http, csvRows, Store)} :
        /\ Len(r.store.file) <= MaxCacheLines
        /\ lastReq' = body
        /\ lastResp' = r.resp
        /\ backendCalls' = r.calls
        /\ backendPrompt' = r.prompt
        /\ cacheExists' = r.store.exists
        /\ cacheFile' = r.store.file
        /\ cacheOpen' = r.store.open
        /\ UNCHANGED csvRows
        /\ UNCHANGED threadVars
        /\ UNCHANGED scrapeVars

Embed == EmbedFrom(Bodies)

ScrapeIdle ==
    /\ pc = "idle" /\ raisedAt = "" /\ cfg = <<>> /\ cutoff = 0
    /\ categories = <<>> /\ ci = 0 /\ links = <<>> /\ li = 0 /\ count = 0
    /\ written = 0 /\ seen_urls = {} /\ csvOut = <<>> /\ fetched = <<>>
    /\ page = <<>> /\ ret = None

ServerInit ==
    /\ csvRows \in CsvChoices
    /\ cacheExists = FALSE
    /\ cacheFile = <<>>
    /\ cacheOpen = FALSE
    /\ lastReq = NoRequest
    /\ lastResp = Response(0, "", FALSE, NoEntry)
    /\ backendCalls = 0
    /\ backendPrompt = None
    /\ ThreadsIdle

Init == ServerInit /\ ScrapeIdle

Next == Embed

Spec == Init /\ [][Next]_vars

-----------------------------------------------------------------------------
(* The service started on a cache file of arbitrary content *)

StoredEntry == [key |-> "m1|u1", model |-> "m1", dims |-> 1, embedding |-> <<1>>, url |-> "u1"]

\* Lines an arbitrary file may hold: blank, not JSON, JSON but no object, an
\* object without a string key, a stored entry
LineChoices ==
    {BlankLine, GarbageLine, NonObjLine,
     Line("obj", None, FALSE, "m1", <<1>>, "u1"),
     DumpEntry(StoredEntry)}

RECURSIVE SeqsUpTo(_, _)
SeqsUpTo(S, n) ==
    IF n = 0 THEN {<<>>}
    ELSE LET shorter == SeqsUpTo(S, n - 1)
         IN shorter \cup {Append(q, x) : q \in shorter, x \in S}

CorruptInit ==
    /\ csvRows \in CsvChoices
    /\ cacheExists = TRUE
    /\ cacheFile \in SeqsUpTo(LineChoices, MaxCorruptLines)
    /\ cacheOpen \in {o \in BOOLEAN : o => Len(cacheFile) > 0}
    /\ lastReq = NoRequest
    /\ lastResp = Response(0, "", FALSE, NoEntry)
    /\ backendCalls = 0
    /\ backendPrompt = None
    /\ ThreadsIdle
    /\ ScrapeIdle

SpecCorrupt == CorruptInit /\ [][Next]_vars

-----------------------------------------------------------------------------
(* The service handling requests that carry different texts *)

\* Requests for a url of the CSV and for a url that is not in it, without a
\* text or with one of two texts, under the default model
TextBodies == [url : {"u1", "a|u1"}, text : {None, "t1", "t2"}, model : {None},
               force : BOOLEAN]

EmbedText == EmbedFrom(TextBodies)

SpecText == Init /\ [][EmbedText]_vars

-----------------------------------------------------------------------------
(* The service handling requests in concurrent threads *)

\* embed() takes no lock and each call opens the cache file itself.  A load
\* reads what the file holds at that moment.  f.write hands the line to the
\* operating system on close; the line reaches the file in one write, or, when
\* a write is cut short, in two: its head and then its tail, with the newline.
\* Between the two, other threads run.
\*
\* A line of the file is the dict of a request only when it is that request's
\* head directly followed by its tail, or its line written in one piece; a
\* head alone, or pieces of different writes on one line, are not valid JSON.

\* The requests of the threads: for a url of the CSV
ThreadBodies == {b \in Bodies : b.url = "u1"}

\* The file after the head of a line is written by thread t
WriteHead(store) ==
    IF store.open THEN store
    ELSE [exists |-> TRUE, file |-> Append(store.file, GarbageLine), open |-> TRUE]

\* The file after thread t writes the tail of its line; own says whether the
\* open last line is the head of that line and nothing else
WriteTail(store, own, out) ==
    IF store.open /\ own
    THEN [exists |-> TRUE, file |-> [store.file EXCEPT ![Len(store.file)] = DumpEntry(out)],
          open |-> FALSE]
    ELSE IF store.open
    THEN [exists |-> TRUE, file |-> store.file, open |-> FALSE]
    ELSE [exists |-> TRUE, file |-> Append(store.file, GarbageLine), open |-> FALSE]

ThreadModel(t) == OrElse(treq[t].model, embed_model)

ThreadKey(t) == RequestKey(treq[t].url, ThreadModel(t))

\* The thread answers its request
Respond(t, body, resp, calls) ==
    /\ lastReq' = body
    /\ lastResp' = resp
    /\ backendCalls' = calls
    /\ backendPrompt' = IF calls = 0 THEN None ELSE ResolveText(body, csvRows).text
    /\ tpc' = [tpc EXCEPT ![t] = "idle"]
    /\ treq' = [treq EXCEPT ![t] = NoRequest]
    /\ tout' = [tout EXCEPT ![t] = NoEntry]

SetStore(store) ==
    /\ cacheExists' = store.exists
    /\ cacheFile' = store.file
    /\ cacheOpen' = store.open

\* lines 134-155: the request is read, its text resolved, the cache loaded
Receive(t) ==
    /\ tpc[t] = "idle"
    /\ \E body \in ThreadBodies :
        LET rt == ResolveText(body, csvRows)
            key == RequestKey(body.url, OrElse(body.model, embed_model))
        IN
        \E loaded \in {IF Truthy(body.url) THEN _load_cache(cacheExists, cacheFile)
                       ELSE [ok |-> TRUE, cache |-> EmptyCache]} :
        IF rt.status # 200
        THEN Respond(t, body, Response(rt.status, "", FALSE, NoEntry), 0)
        ELSE IF ~loaded.ok
        THEN Respond(t, body, Response(500, "AttributeError", FALSE, NoEntry), 0)
        ELSE IF Truthy(body.url) /\ IsHit(body.force, key, loaded.cache)
        THEN Respond(t, body, Response(200, "", TRUE, loaded.cache[key]), 0)
        ELSE /\ tpc' = [tpc EXCEPT ![t] = "miss"]
             /\ treq' = [treq EXCEPT ![t] = body]
             /\ UNCHANGED <<lastReq, lastResp, backendCalls, backendPrompt, tout>>
    /\ UNCHANGED <<csvRows, cacheExists, cacheFile, cacheOpen, openHead, persisted>>
    /\ UNCHANGED scrapeVars

\* lines 157-164: the backend call and the dict of the result
CallBackend(t) ==
    /\ tpc[t] = "miss"
    /\ \E http \in HttpResponses :
        \E res \in {OllamaEmbed(http, ThreadModel(t))} :
        LET out == [key |-> ThreadKey(t), model |-> res.model, dims |-> Len(res.embedding),
                    embedding |-> res.embedding, url |-> treq[t].url]
        IN
        IF ~res.ok
        THEN Respond(t, treq[t], Response(500, res.error, FALSE, NoEntry), 1)
        ELSE IF ~Truthy(ThreadKey(t))
        THEN Respond(t, treq[t], Response(200, "", FALSE, out), 1)
        ELSE /\ tpc' = [tpc EXCEPT ![t] = "append"]
             /\ tout' = [tout EXCEPT ![t] = out]
             /\ UNCHANGED <<lastReq, lastResp, backendCalls, backendPrompt, treq>>
    /\ UNCHANGED <<csvRows, cacheExists, cacheFile, cacheOpen, openHead, persisted>>
    /\ UNCHANGED scrapeVars

\* lines 165-167: the line reaches the file in one write
AppendWhole(t) ==
    /\ tpc[t] = "append"
    /\ \E store \in {[exists |-> TRUE, file |-> _append_cache(cacheFile, cacheOpen, tout[t]),
                      open |-> FALSE]} :
        /\ Len(store.file) <= MaxCacheLines
        /\ SetStore(store)
    /\ openHead' = 0
    /\ persisted' = persisted \cup {tout[t]}
    /\ Respond(t, treq[t], Response(200, "", FALSE, tout[t]), 1)
    /\ UNCHANGED csvRows
    /\ UNCHANGED scrapeVars

\* lines 165-166: the write is cut short, the head of the line is in the file
AppendHead(t) ==
    /\ tpc[t] = "append"
    /\ \E store \in {WriteHead(Store)} :
        /\ Len(store.file) <= MaxCacheLines
        /\ SetStore(store)
    /\ openHead' = IF cacheOpen THEN 0 ELSE t
    /\ tpc' = [tpc EXCEPT ![t] = "writing"]
    /\ UNCHANGED <<csvRows, lastReq, lastResp, backendCalls, backendPrompt, treq, tout,
                   persisted>>
    /\ UNCHANGED scrapeVars

\* lines 165-167: the rest of the line is written
AppendTail(t) ==
    /\ tpc[t] = "writing"
    /\ \E store \in {WriteTail(Store, openHead = t, tout[t])} :
        /\ Len(store.file) <= MaxCacheLines
        /\ SetStore(store)
    /\ openHead' = 0
    /\ persisted' = persisted \cup {tout[t]}
    /\ Respond(t, treq[t], Response(200, "", FALSE, tout[t]), 1)
    /\ UNCHANGED csvRows
    /\ UNCHANGED scrapeVars

ThreadsNext ==
    \E t \in Threads :
        \/ Receive(t)
        \/ CallBackend(t)
        \/ AppendWhole(t)
        \/ AppendHead(t)
        \/ AppendTail(t)

SpecThreads == Init /\ [][ThreadsNext]_vars

-----------------------------------------------------------------------------
(* The scraping pipeline: news_scraper.py *)

\* Strings the pipeline takes apart (hrefs, URLs, slugs) are sequences of
\* tokens: "/" and "?" stand for themselves, BASE_URL and OTHER_HOST for a
\* scheme and host, every other token for a run of other characters.
BASE_URL == "https://timesofindia.indiatimes.com"
OTHER_HOST == "https://example.com"

\* The tokens in the order Python compares the strings they stand for
Alphabet ==
    <<"#", "*", "/", "?", "India", "World", "a1", "a2", "a3", "articleshow", "business",
      "education", "environment", "health-fitness", OTHER_HOST, BASE_URL, "india",
      "photos", "science", "search", "sports", "tech", "technology", "topic", "utm",
      "videos", "world">>

TokRank(t) == CHOOSE i \in 1..Len(Alphabet) : Alphabet[i] = t

\* a < b for strings
RECURSIVE StrLess(_, _)
StrLess(a, b) ==
    IF b = <<>> THEN FALSE
    ELSE IF a = <<>> THEN TRUE
    ELSE IF Head(a) = Head(b) THEN StrLess(Tail(a), Tail(b))
    ELSE TokRank(Head(a)) < TokRank(Head(b))

\* sorted(S)
RECURSIVE Sorted(_)
Sorted(S) ==
    IF S = {} THEN <<>>
    ELSE LET m == CHOOSE x \in S : \A y \in S \ {x} : StrLess(x, y)
         IN <<m>> \o Sorted(S \ {m})

\* str.lower()
LowerTok(t) == IF t = "World" THEN "world" ELSE IF t = "India" THEN "india" ELSE t
Lower(str) == [i \in 1..Len(str) |-> LowerTok(str[i])]

\* sub in str
Contains(str, sub) ==
    \E i \in 0..(Len(str) - Len(sub)) : SubSeq(str, i + 1, i + Len(sub)) = sub

\* str.startswith(prefix)
StartsWith(str, prefix) ==
    Len(str) >= Len(prefix) /\ SubSeq(str, 1, Len(prefix)) = prefix

\* str.count("/")
CountSlash(str) == Cardinality({i \in 1..Len(str) : str[i] = "/"})

\* str.strip("/")
RECURSIVE StripSlash(_)
StripSlash(str) ==
    IF str = <<>> THEN str
    ELSE IF Head(str) = "/" THEN StripSlash(Tail(str))
    ELSE IF str[Len(str)] = "/" THEN StripSlash(SubSeq(str, 1, Len(str) - 1))
    ELSE str

\* str.split(sep)[0]
BeforeFirst(str, sep) ==
    IF \E i \in 1..Len(str) : str[i] = sep
    THEN SubSeq(str, 1, (CHOOSE i \in 1..Len(str) :
                            str[i] = sep /\ \A j \in 1..(i - 1) : str[j] # sep) - 1)
    ELSE str

\* str.replace(BASE_URL, "")
RemoveBase(str) == SelectSeq(str, LAMBDA t : t # BASE_URL)

BadParts ==
    {<<"/", "topic", "/">>, <<"/", "search">>, <<"/", "videos">>, <<"/", "photos">>,
     <<"?", "utm">>, <<"#">>}

\* get_categories on the hrefs of the home page
get_categories(hrefs, allowed) ==
    Sorted({<<BASE_URL>> \o h : h \in
        {h \in hrefs :
            /\ \A bad \in BadParts : ~Contains(h, bad)
            /\ CountSlash(h) = 1 /\ h # <<"/">>
            /\ \/ allowed = {}
               \/ <<"*">> \in allowed
               \/ Lower(StripSlash(h)) \in allowed}})

DEFAULT_VALID_CATEGORIES ==
    {<<"india">>, <<"world">>, <<"business">>, <<"sports">>, <<"technology">>,
     <<"tech">>, <<"health-fitness">>, <<"science">>, <<"environment">>, <<"education">>}

\* fallback_categories
fallback_categories(allowed) ==
    LET slugs == Sorted(IF allowed # {} THEN allowed ELSE DEFAULT_VALID_CATEGORIES)
    IN [i \in 1..Len(slugs) |-> <<BASE_URL, "/">> \o slugs[i]]

\* get_article_links: the set of normalized URLs of the hrefs of a category
\* page; list(urls) puts them in an order of its own
get_article_links(hrefs) ==
    {<<BASE_URL>> \o BeforeFirst(h, "?") : h \in {h \in hrefs : StartsWith(h, <<"/">>)}}
    \cup {BeforeFirst(h, "?") : h \in {h \in hrefs :
            ~StartsWith(h, <<"/">>)
            /\ (StartsWith(h, <<BASE_URL>>) \/ StartsWith(h, <<OTHER_HOST>>))}}

\* _category_slug_from_url
_category_slug_from_url(category_url) ==
    LET slug == Lower(BeforeFirst(StripSlash(RemoveBase(category_url)), "/"))
    IN IF slug = <<>> THEN <<"unknown">> ELSE slug

\* normalize_category
normalize_category(slug) ==
    CASE slug = <<"world">> -> <<"world">>
      [] slug = <<"business">> -> <<"business">>
      [] slug = <<"sports">> -> <<"sports">>
      [] slug \in {<<"technology">>, <<"tech">>, <<"science">>} -> <<"technology">>
      [] slug \in {<<"health">>, <<"health-fitness">>} -> <<"health">>
      [] slug \in {<<"india">>, <<"politics">>} -> <<"politics">>
      [] OTHER -> IF slug = <<>> THEN <<"unknown">> ELSE slug

\* lines 263-265: the link is taken to belong to the section
InSection(url, slug) ==
    slug # <<>> => StartsWith(RemoveBase(url), <<"/">> \o slug \o <<"/">>)

\* An optional int argument
NoInt == [some |-> FALSE, v |-> 0]
Some(n) == [some |-> TRUE, v |-> n]

HoursPerDay == 24
DefaultWindowDays == 7

\* lines 214-220, in hours
Cutoff(now, window_hours, window_days) ==
    IF window_hours.some THEN now - window_hours.v
    ELSE IF window_days.some THEN now - window_days.v * HoursPerDay
    ELSE now - DefaultWindowDays * HoursPerDay

\* A datetime: the wall clock time in hours and, unless naive, the UTC offset
NoDt == [found |-> FALSE, naive |-> TRUE, wall |-> 0, off |-> 0]
Dt(naive, wall, off) == [found |-> TRUE, naive |-> naive, wall |-> wall, off |-> off]

\* lines 273-274: a naive datetime is taken as UTC
AsAware(dt) == IF dt.naive THEN Dt(FALSE, dt.wall, 0) ELSE dt

\* dt < cutoff as it would be if the wall clock times were compared
IsBeforeWall(dt, cut) == dt.wall < cut

\* line 275: dt < cutoff, for an aware dt and the UTC cutoff
IsBefore(dt, cut) == dt.wall - dt.off < cut

\* _safe_iso: the time in UTC
_safe_iso(dt) == AsAware(dt).wall - AsAware(dt).off

\* url in seen_urls as it would be if the seen-set were not consulted
IsSeenNever(url, seen) == FALSE

\* line 260
IsSeen(url, seen) == url \in seen

\* The run start time, in hours
NowChoices == {1000}

WindowHoursChoices == {NoInt, Some(3)}
WindowDaysChoices == {NoInt, Some(1)}
AllowedChoices == {{<<"india">>, <<"world">>}, {<<"*">>}}
MaxPerCategoryChoices == {1, 2}
MinCharsChoices == {3}

\* The hrefs of the home page: two spellings of one section among links that
\* are no sections; two sections; none
NavChoices ==
    {{<<"/", "World">>, <<"/", "world">>, <<"/">>, <<"/", "topic", "/", "a1">>,
      <<"/", "world", "?", "utm">>},
     {<<"/", "india">>, <<"/", "world">>, <<"/", "videos">>},
     {}}

\* The hrefs of a category page
World1 == <<"/", "world", "/", "articleshow", "/", "a1">>
World2 == <<"/", "world", "/", "articleshow", "/", "a2">>
India2 == <<"/", "india", "/", "articleshow", "/", "a2">>

PageHrefChoices ==
    {{World1, World1 \o <<"?", "utm">>, <<BASE_URL>> \o World1},
     {World1, India2, <<OTHER_HOST>> \o World2},
     {World2 \o <<"?", "a1">>, <<BASE_URL>> \o World1 \o <<"?", "utm">>},
     {<<"articleshow", "/", "a3">>}}

\* What an article fetch finds: page.goto raises, an extractor raises, or a
\* page with a publish time (or none) and a body of some length
PageOf(kind, dt, chars) == [kind |-> kind, dt |-> dt, chars |-> chars]

PageChoices(now) ==
    {PageOf("goto_error", NoDt, 0), PageOf("parse_error", NoDt, 0),
     PageOf("page", NoDt, 5),
     PageOf("page", Dt(TRUE, now - 1, 0), 5),
     PageOf("page", Dt(TRUE, now - 1, 0), 1),
     PageOf("page", Dt(TRUE, now - 30, 0), 5),
     PageOf("page", Dt(FALSE, now - 20, 6), 5),
     PageOf("page", Dt(FALSE, now - 28, 0 - 6), 5),
     PageOf("page", Dt(TRUE, now - 200, 0), 5)}

\* The orders list(urls) may put a set in
Perms(S) ==
    {q \in [1..Cardinality(S) -> S] : \A i, j \in 1..Cardinality(S) : q[i] = q[j] => i = j}

\* lines 270-280: the record is kept
Keeps(pg, cut, min_chars) ==
    /\ pg.kind = "page"
    /\ pg.dt.found
    /\ ~IsBefore(AsAware(pg.dt), cut)
    /\ pg.chars >= min_chars

\* line 282
Row(category, url, dt, chars) ==
    [source |-> "timesofindia", category |-> category, url |-> url,
     published_time |-> _safe_iso(dt), content_chars |-> chars]

ServerIdle ==
    /\ csvRows = <<>>
    /\ cacheExists = FALSE
    /\ cacheFile = <<>>
    /\ cacheOpen = FALSE
    /\ lastReq = NoRequest
    /\ lastResp = Response(0, "", FALSE, NoEntry)
    /\ backendCalls = 0
    /\ backendPrompt = None
    /\ ThreadsIdle

ScrapeInit ==
    /\ ServerIdle
    /\ pc = "init"
    /\ raisedAt = ""
    /\ cfg \in [now : NowChoices, window_hours : WindowHoursChoices,
                window_days : WindowDaysChoices, allowed_categories : AllowedChoices,
                max_articles_per_category : MaxPerCategoryChoices,
                min_chars : MinCharsChoices]
    /\ cutoff = 0
    /\ categories = <<>> /\ ci = 0 /\ links = <<>> /\ li = 0 /\ count = 0
    /\ written = 0 /\ seen_urls = {} /\ csvOut = <<>> /\ fetched = <<>>
    /\ page = PageOf("none", NoDt, 0) /\ ret = None

\* lines 214-240: the cutoff, the output file with its header, the categories
StartRun ==
    /\ pc = "init"
    /\ \E nav \in NavChoices :
        LET found == get_categories(nav, cfg.allowed_categories) IN
        categories' = IF found = <<>> THEN fallback_categories(cfg.allowed_categories)
                      ELSE found
    /\ cutoff' = Cutoff(cfg.now, cfg.window_hours, cfg.window_days)
    /\ ci' = 1
    /\ pc' = "category"
    /\ UNCHANGED <<raisedAt, cfg, links, li, count, written, seen_urls, csvOut, fetched,
                   page, ret>>
    /\ UNCHANGED serverVars

\* line 237: page.goto or the evaluation on the home page raises
HomeRaises ==
    /\ pc = "init"
    /\ cutoff' = Cutoff(cfg.now, cfg.window_hours, cfg.window_days)
    /\ pc' = "raised"
    /\ raisedAt' = "home"
    /\ UNCHANGED <<cfg, categories, ci, links, li, count, written, seen_urls, csvOut,
                   fetched, page, ret>>
    /\ UNCHANGED serverVars

\* lines 247-251: page.goto on the category page raises
CategoryGotoFails ==
    /\ pc = "category" /\ ci <= Len(categories)
    /\ ci' = ci + 1
    /\ UNCHANGED <<pc, raisedAt, cfg, cutoff, categories, links, li, count, written,
                   seen_urls, csvOut, fetched, page, ret>>
    /\ UNCHANGED serverVars

\* lines 253-256: the links of the category page
CategoryLinks ==
    /\ pc = "category" /\ ci <= Len(categories)
    /\ \E hrefs \in PageHrefChoices : links' \in Perms(get_article_links(hrefs))
    /\ li' = 1
    /\ count' = 0
    /\ pc' = "links"
    /\ UNCHANGED <<raisedAt, cfg, cutoff, categories, ci, written, seen_urls, csvOut,
                   fetched, page, ret>>
    /\ UNCHANGED serverVars

\* line 253: the evaluation on the category page raises, outside any try
CategoryLinksRaise ==
    /\ pc = "category" /\ ci <= Len(categories)
    /\ pc' = "raised"
    /\ raisedAt' = "links"
    /\ UNCHANGED <<cfg, cutoff, categories, ci, links, li, count, written, seen_urls,
                   csvOut, fetched, page, ret>>
    /\ UNCHANGED serverVars

\* lines 257-259: the links are used up or the cap is reached
EndCategory ==
    /\ pc = "links"
    /\ li > Len(links) \/ count >= cfg.max_articles_per_category
    /\ ci' = ci + 1
    /\ pc' = "category"
    /\ UNCHANGED <<raisedAt, cfg, cutoff, categories, links, li, count, written,
                   seen_urls, csvOut, fetched, page, ret>>
    /\ UNCHANGED serverVars

\* lines 260-265: a link already seen or of another section is passed over
SkipLink ==
    /\ pc = "links"
    /\ li <= Len(links) /\ count < cfg.max_articles_per_category
    /\ \/ IsSeen(links[li], seen_urls)
       \/ ~InSection(links[li], _category_slug_from_url(categories[ci]))
    /\ li' = li + 1
    /\ UNCHANGED <<pc, raisedAt, cfg, cutoff, categories, ci, links, count, written,
                   seen_urls, csvOut, fetched, page, ret>>
    /\ UNCHANGED serverVars

\* lines 266-289: the article is fetched, parsed, filtered and written
FetchArticle ==
    /\ pc = "links"
    /\ li <= Len(links) /\ count < cfg.max_articles_per_category
    /\ ~IsSeen(links[li], seen_urls)
    /\ InSection(links[li], _category_slug_from_url(categories[ci]))
    /\ \E pg \in PageChoices(cfg.now) :
        LET url == links[li]
            category == normalize_category(_category_slug_from_url(categories[ci]))
        IN
        /\ page' = pg
        /\ fetched' = Append(fetched, url)
        /\ IF Keeps(pg, cutoff, cfg.min_chars)
           THEN /\ csvOut' = Append(csvOut, Row(category, url, AsAware(pg.dt), pg.chars))
                /\ seen_urls' = seen_urls \cup {url}
                /\ written' = written + 1
                /\ count' = count + 1
           ELSE UNCHANGED <<csvOut, seen_urls, written, count>>
    /\ li' = li + 1
    /\ UNCHANGED <<pc, raisedAt, cfg, cutoff, categories, ci, links, ret>>
    /\ UNCHANGED serverVars

\* lines 291-294
Finish ==
    /\ pc = "category" /\ ci > Len(categories)
    /\ pc' = "done"
    /\ ret' = written
    /\ UNCHANGED <<raisedAt, cfg, cutoff, categories, ci, links, li, count, written,
                   seen_urls, csvOut, fetched, page>>
    /\ UNCHANGED serverVars

ScrapeNext ==
    \/ StartRun
    \/ HomeRaises
    \/ CategoryGotoFails
    \/ CategoryLinks
    \/ CategoryLinksRaise
    \/ EndCategory
    \/ SkipLink
    \/ FetchArticle
    \/ Finish

SpecScrape == ScrapeInit /\ [][ScrapeNext]_vars

-----------------------------------------------------------------------------
(* Properties of the embedding service *)

ReqModel(req) == OrElse(req.model, embed_model)

ReqKey(req) == _cache_key(req.url, ReqModel(req))

\* The url of the request is the url of a row of the article CSV
InCsv(url) == \E i \in 1..Len(csvRows) : csvRows[i].url = url

\* The request is not an input error: it carries text, or a url of the CSV
Resolves(req) == Truthy(req.text) \/ (Truthy(req.url) /\ InCsv(req.url))

\* The entries a lookup sees in the cache file
Visible == _load_cache(cacheExists, cacheFile).cache

BackendErrors == {"HTTPError", "ValueError"}

StoreUnchanged == UNCHANGED <<cacheExists, cacheFile, cacheOpen>>

\* The entry of the last line of the file that stores key k
LastStored(file, k) ==
    LET idx == {i \in 1..Len(file) : file[i].kind = "obj" /\ file[i].keyIsStr /\ file[i].key = k}
    IN EntryOf(file[CHOOSE i \in idx : \A j \in idx : j <= i])

\* C1 - Cache idempotence: when a non-forced request for a url of the article
\* CSV was a miss that the backend answered (one backend call, cached=false),
\* the next request with the same url and model and force=false makes no
\* backend call and returns cached=true with the same embedding.
CacheIdempotence ==
    [][(/\ Truthy(lastReq.url) /\ InCsv(lastReq.url)
        /\ ~lastReq.force
        /\ lastResp.status = 200 /\ ~lastResp.cached
        /\ lastReq'.url = lastReq.url
        /\ ReqModel(lastReq') = ReqModel(lastReq)
        /\ ~lastReq'.force)
       => (/\ backendCalls = 1
           /\ backendCalls' = 0
           /\ lastResp'.status = 200
           /\ lastResp'.cached
           /\ lastResp'.embedding = lastResp.embedding)]_vars

\* A hit on the only entry of the file, for a url of the CSV
CacheIdempotenceWitness ==
    /\ Truthy(lastReq.url) /\ InCsv(lastReq.url) /\ ~lastReq.force
    /\ lastResp.status = 200 /\ lastResp.cached /\ backendCalls = 0
    /\ Len(cacheFile) = 1
    /\ cacheFile[1].key = ReqKey(lastReq)
    /\ lastResp.embedding = cacheFile[1].embedding

TextOnlyBypassesCache ==
    [][(Truthy(lastReq'.text) /\ ~Truthy(lastReq'.url))
       => (/\ StoreUnchanged
           /\ backendCalls' = 1
           /\ ~lastResp'.cached
           /\ \/ lastResp'.status = 200 /\ lastResp'.key = None
              \/ lastResp'.status = 500 /\ lastResp'.error \in BackendErrors)]_vars

\* A text-only request answered by the backend while the cache holds entries
TextOnlyBypassesCacheWitness ==
    /\ Truthy(lastReq.text) /\ ~Truthy(lastReq.url)
    /\ lastResp.status = 200 /\ ~lastResp.cached /\ backendCalls = 1
    /\ DOMAIN Visible # {}

\* C7 - A request with neither url nor text gets 400, a request with a url,
\* no text and no CSV row of that url gets 404; neither calls the backend nor
\* changes the cache file.
InputErrors ==
    [][/\ (~Truthy(lastReq'.text) /\ ~Truthy(lastReq'.url))
          => (lastResp'.status = 400 /\ backendCalls' = 0 /\ StoreUnchanged)
       /\ (~Truthy(lastReq'.text) /\ Truthy(lastReq'.url) /\ ~InCsv(lastReq'.url))
          => (lastResp'.status = 404 /\ backendCalls' = 0 /\ StoreUnchanged)]_vars

\* A 404 for a url whose key is stored in the cache
InputErrorsWitness ==
    /\ ~Truthy(lastReq.text) /\ Truthy(lastReq.url) /\ ~InCsv(lastReq.url)
    /\ lastResp.status = 404
    /\ ReqKey(lastReq) \in DOMAIN Visible

CorruptLinesSkipped ==
    /\ lastResp.error # "AttributeError"
    /\ lastResp.status = 500 => lastResp.error \in BackendErrors

-----------------------------------------------------------------------------
(* Properties of the scraping pipeline *)

\* The window of the run in hours: window_hours if given, else window_days,
\* else 7 days
WindowHours ==
    IF cfg.window_hours.some THEN cfg.window_hours.v
    ELSE IF cfg.window_days.some THEN 24 * cfg.window_days.v
    ELSE 168

\* The publish time of a page as a UTC time, a naive time being UTC
UtcTime(dt) == IF dt.naive THEN dt.wall ELSE dt.wall - dt.off

Times(url) == Cardinality({i \in 1..Len(fetched) : fetched[i] = url})

\* C4 - Dedup: no URL is written to the output CSV more than once.
NoDuplicateUrls ==
    \A i, j \in 1..Len(csvOut) : csvOut[i].url = csvOut[j].url => i = j

\* In the second category, a link of its section that the first category
\* wrote has just been passed over: it is in the output and was fetched once
NoDuplicateUrlsWitness ==
    /\ pc = "links" /\ ci = 2 /\ li > 1 /\ count = 0
    /\ links[li - 1] \in seen_urls
    /\ InSection(links[li - 1], _category_slug_from_url(categories[ci]))
    /\ \E i \in 1..Len(csvOut) : csvOut[i].url = links[li - 1]
    /\ Times(links[li - 1]) = 1

\* C5 - Window correctness: every row written has a publish time at or after
\* the run start time minus the window, and a fetch that finds no publish
\* time, or one before that cutoff, writes nothing.
WindowCorrect ==
    [][/\ \A i \in 1..Len(csvOut') : csvOut'[i].published_time >= cfg.now - WindowHours
       /\ (/\ Len(fetched') > Len(fetched)
           /\ page'.kind = "page"
           /\ (~page'.dt.found \/ UtcTime(page'.dt) < cfg.now - WindowHours))
          => csvOut' = csvOut]_vars

\* With a window of one day, a row whose wall clock time is before the cutoff
\* and whose UTC time is not was written, and another fetch was dropped
WindowCorrectWitness ==
    /\ ~cfg.window_hours.some /\ cfg.window_days.some
    /\ page.kind = "page" /\ page.dt.found /\ ~page.dt.naive
    /\ page.dt.wall < cfg.now - WindowHours
    /\ Len(csvOut) > 0
    /\ csvOut[Len(csvOut)].published_time = UtcTime(page.dt)
    /\ csvOut[Len(csvOut)].url = fetched[Len(fetched)]
    /\ Len(fetched) > Len(csvOut)

\* C6 - Failure policy: no failure on a category page or an article page
\* leaves scrape() as an exception, and scrape() returns the number of rows
\* written.
FailureNeverAborts ==
    /\ pc = "raised" => raisedAt = "home"
    /\ pc = "done" => ret = Len(csvOut)

\* C9 - No article URL is fetched more than once in a run.
NoRefetch ==
    \A i, j \in 1..Len(fetched) : fetched[i] = fetched[j] => i = j

-----------------------------------------------------------------------------
(* Properties of the service under concurrent requests *)

\* C11 - Under concurrent requests the appends are atomic and no lookup hits
\* a half-written entry: every line of the cache file is the dict of one
\* request, but for a last line one thread is still writing, and every cache
\* hit returns a dict exactly as a request wrote it.
AppendsAtomic ==
    /\ \A i \in 1..Len(cacheFile) :
         \/ cacheFile[i].kind = "obj"
         \/ i = Len(cacheFile) /\ cacheOpen /\ openHead \in Threads
    /\ (lastResp.status = 200 /\ lastResp.cached)
       => \E out \in persisted :
            /\ out.key = lastResp.key /\ out.model = lastResp.model
            /\ out.dims = lastResp.dims /\ out.embedding = lastResp.embedding
            /\ out.url = lastResp.url

-----------------------------------------------------------------------------
(* Properties of requests that carry a url and a text *)

\* The last request carried a url and a text, called the backend with
\* success and was answered with the vector
EmbeddedUrlText ==
    /\ Truthy(lastReq.url) /\ Truthy(lastReq.text)
    /\ lastResp.status = 200 /\ ~lastResp.cached /\ backendCalls = 1

\* The next request is for the same url and model, without force, and its
\* text is another one or absent
SameUrlOtherText ==
    /\ lastReq'.url = lastReq.url
    /\ ReqModel(lastReq') = ReqModel(lastReq)
    /\ ~lastReq'.force
    /\ lastReq'.text # lastReq.text

\* The request is answered from the cache with vector v
HitWith(v) ==
    /\ lastResp'.status = 200 /\ lastResp'.cached
    /\ backendCalls' = 0
    /\ lastResp'.embedding = v

\* A request with url and text never gets a 400 or 404, whatever the CSV
\* holds; the text handed to the backend is the text of the request; the
\* result is stored under the key of model and url
UrlTextRequest ==
    (Truthy(lastReq'.url) /\ Truthy(lastReq'.text))
    => /\ lastResp'.status \notin {400, 404}
       /\ backendCalls' = 1 => backendPrompt' = lastReq'.text
       /\ (lastResp'.status = 200 /\ ~lastResp'.cached)
          => \A after \in {Visible'} :
               /\ lastResp'.key = _cache_key(lastReq'.url, ReqModel(lastReq'))
               /\ lastResp'.key \in DOMAIN after
               /\ after[lastResp'.key].embedding = lastResp'.embedding

\* C12 - A request with url and text does not consult the CSV, embeds its
\* text and stores the vector under key(model, url); a later request without
\* force for the same url and model with another text, or with no text when
\* the url is in the CSV, gets that vector with cached=true and no backend
\* call.
TextIgnoredByKey ==
    [][/\ UrlTextRequest
       /\ (EmbeddedUrlText /\ SameUrlOtherText
           /\ (Truthy(lastReq'.text) \/ InCsv(lastReq'.url)))
          => HitWith(lastResp.embedding)]_vars

\* C12 as stated: also a later request with no text for a url that is not in
\* the CSV gets the stored vector
TextIgnoredByKeyAnyUrl ==
    [][/\ UrlTextRequest
       /\ (EmbeddedUrlText /\ SameUrlOtherText) => HitWith(lastResp.embedding)]_vars

\* A request with text "t2" for a url that is not in the CSV is answered from
\* the cache, which holds one entry
TextIgnoredByKeyWitness ==
    /\ lastReq.url = "a|u1" /\ ~InCsv(lastReq.url) /\ lastReq.text = "t2"
    /\ lastResp.status = 200 /\ lastResp.cached /\ backendCalls = 0
    /\ Len(cacheFile) = 1
    /\ cacheFile[1].key = ReqKey(lastReq)

====
